---- MODULE Spec2Model ----
(***************************************************************************)
(* A model of simple-anvil, a read-only decoder of Minecraft region files. *)
(*                                                                         *)
(*   block.rs   Block::from_name, Block::name, Block::from_palette         *)
(*   chunk.rs   Chunk::get_heightmap, get_section, get_biome, get_block,   *)
(*              bit_length                                                 *)
(*   region.rs  Region::header_offset, chunk_location, chunk_data,         *)
(*              get_chunk, get_block, from_be_3_bytes                      *)
(*                                                                         *)
(* Strings are sequences of one-character strings.  A 64-bit word is a     *)
(* function from bit position 0..63 (bit 0 least significant) to 0..1, so  *)
(* that the signed and the unsigned reading of a word, and the two kinds   *)
(* of right shift, are distinct operations.  A failed index, unwrap or     *)
(* todo!() is the result Panic(..): the thread unwinds and the caller gets *)
(* no value.                                                               *)
(***************************************************************************)
EXTENDS Integers, Sequences, FiniteSets, TLC

VARIABLES region, chunk, call, ret

vars == <<region, chunk, call, ret>>

-----------------------------------------------------------------------------
(* Values shared by all operations *)

None == [kind |-> "none"]

Some(v) == [kind |-> "some", val |-> v]

Panic(msg) == [kind |-> "panic", msg |-> msg]

IsPanic(r) == r.kind = "panic"

Pow2(n) == 2 ^ n

Min(a, b) == IF a < b THEN a ELSE b

Max(a, b) == IF a > b THEN a ELSE b

\* Rust's integer division truncates toward zero; for a divisor b > 0, written
\* so that no intermediate value leaves the range of i32.
TruncDiv(a, b) == IF a >= 0 THEN a \div b ELSE (a + (b - 1)) \div b

\* Rust's % takes the sign of the dividend.
TruncRem(a, b) == a - b * TruncDiv(a, b)

-----------------------------------------------------------------------------
(* block.rs *)

Colon == ":"

\* "minecraft:air"
AirName == <<"m", "i", "n", "e", "c", "r", "a", "f", "t", ":", "a", "i", "r">>

Minecraft == <<"m", "i", "n", "e", "c", "r", "a", "f", "t">>

Air == <<"a", "i", "r">>

HasColon(s) == \E i \in 1..Len(s) : s[i] = Colon

FirstColon(s) == CHOOSE i \in 1..Len(s) : s[i] = Colon /\ \A j \in 1..(i - 1) : s[j] # Colon

\* str::split on a colon: every colon separates two pieces, empty pieces are kept.
RECURSIVE split(_)
split(s) ==
    IF ~HasColon(s) THEN <<s>>
    ELSE <<SubSeq(s, 1, FirstColon(s) - 1)>> \o split(SubSeq(s, FirstColon(s) + 1, Len(s)))

MkBlock(namespace, id, coords, properties) ==
    [kind |-> "block", namespace |-> namespace, id |-> id,
     coords |-> coords, properties |-> properties]

\* Block::from_name: temp[1] is an index out of bounds when the name has no colon.
from_name(name, coords, properties) ==
    LET temp == split(name)
    IN  IF Len(temp) < 2
        THEN Panic("index out of bounds: the len is 1 but the index is 1")
        ELSE MkBlock(temp[1], temp[2], coords, properties)

\* Block::name
name(block) == block.namespace \o <<Colon>> \o block.id

\* Block::from_palette: tag is a palette entry, a compound or another value.
from_palette(tag, coords, properties) ==
    IF tag.kind # "compound" THEN Panic("Tag passed from palette is not compound")
    ELSE IF tag.Name.kind = "none" THEN Panic("called Option::unwrap on a None value")
    ELSE IF tag.Name.kind # "string" THEN Panic("Palette tag missing name?")
    ELSE from_name(tag.Name.val, coords, properties)

-----------------------------------------------------------------------------
(* 64-bit words and packed long-arrays *)

BitIdx == 0..63

\* Bit j of the natural number v.
BitOf(v, j) == (v \div Pow2(j)) % 2

\* i64 < 0: the top bit of the word.
IsNegative(word) == word[63] = 1

\* usize >> s and u64 >> s: zeros come in at the top.
Shr(word, s) == [j \in BitIdx |-> IF j + s <= 63 THEN word[j + s] ELSE 0]

\* i64 >> s: the sign bit comes in at the top.
Sar(word, s) == [j \in BitIdx |-> IF j + s <= 63 THEN word[j + s] ELSE word[63]]

\* (2u32.pow(bits) - 1) widened to 64 bits, for bits < 32.
MaskWord(bits) == [j \in BitIdx |-> IF j < bits THEN 1 ELSE 0]

BitAnd(a, b) == [j \in BitIdx |-> IF a[j] = 1 /\ b[j] = 1 THEN 1 ELSE 0]

RECURSIVE LowValue(_, _)
\* The number held in bits 0..(n-1) of a word.
LowValue(word, n) == IF n = 0 THEN 0 ELSE LowValue(word, n - 1) + word[n - 1] * Pow2(n - 1)

\* A masked word read as an index (as usize): defined for masks below 31 bits.
WordValue(word) == LowValue(word, 31)

(***************************************************************************)
(* A long-array of the tag tree.  Its words are given by a description      *)
(* rather than stored bit by bit: len words that hold the n values          *)
(* (mul * i + add) mod m, i = 0..n-1, m <= 2^w, as w-bit fields.  With span *)
(* the                                                                     *)
(* fields are laid end to end over the words as one bit stream; without it  *)
(* each word holds floor(64 / w) whole fields, lowest field first, and the  *)
(* remaining top bits of each word all hold the bit pad.                    *)
(***************************************************************************)
StoredValue(arr, i) ==
    IF i < arr.n THEN (arr.mul * i + arr.add) % arr.m ELSE 0

ArrBit(arr, k, j) ==
    IF arr.w = 0 THEN arr.pad
    ELSE IF arr.span THEN BitOf(StoredValue(arr, (64 * k + j) \div arr.w), (64 * k + j) % arr.w)
    ELSE IF j \div arr.w < 64 \div arr.w
         THEN BitOf(StoredValue(arr, k * (64 \div arr.w) + j \div arr.w), j % arr.w)
         ELSE arr.pad

ArrWord(arr, k) == [j \in BitIdx |-> ArrBit(arr, k, j)]

MkArr(w, span, n, m, mul, add, pad, len) ==
    [w |-> w, span |-> span, n |-> n, m |-> m, mul |-> mul, add |-> add, pad |-> pad,
     len |-> len]

\* Words needed for n fields of w bits, floor(64 / w) per word.
WordsFor(n, w) == (n + (64 \div w) - 1) \div (64 \div w)

-----------------------------------------------------------------------------
(* chunk.rs *)

I32Max == 2147483647

Digit(b) == IF b = 1 THEN "1" ELSE "0"

RECURSIVE format_b(_)
\* format!("{:b}", num) of an unsigned number: no leading zeros, "0" for 0.
format_b(num) ==
    IF num < 2 THEN <<Digit(num)>> ELSE format_b(num \div 2) \o <<Digit(num % 2)>>

\* Chunk::bit_length
bit_length(num) == IF num = 0 THEN 0 ELSE Len(format_b(num))

\* The highest set bit of a word, -1 for the zero word.
HighBit(word) ==
    IF \A j \in BitIdx : word[j] = 0 THEN -1
    ELSE CHOOSE j \in BitIdx : word[j] = 1 /\ \A i \in (j + 1)..63 : word[i] = 0

\* format!("{:b}", n) of an i64: the two's complement bit pattern, so 64
\* characters for a negative n.
format_b_i64(word) ==
    IF HighBit(word) = -1 THEN <<"0">>
    ELSE [i \in 1..(HighBit(word) + 1) |-> Digit(word[HighBit(word) + 1 - i])]

Repeat(c, n) == [i \in 1..n |-> c]

\* slice::chunks(size): the last chunk may be shorter.
chunks(s, size) ==
    [g \in 1..((Len(s) + size - 1) \div size) |->
        SubSeq(s, size * (g - 1) + 1, Min(size * g, Len(s)))]

reverse(s) == [i \in 1..Len(s) |-> s[Len(s) + 1 - i]]

RECURSIVE from_str_radix2(_)
\* usize::from_str_radix(s, 2) of a non-empty string of binary digits.
from_str_radix2(s) ==
    IF Len(s) = 0 THEN 0
    ELSE 2 * from_str_radix2(SubSeq(s, 1, Len(s) - 1)) + (IF s[Len(s)] = "1" THEN 1 ELSE 0)

\* Chunk::get_status
get_status(c) ==
    IF c.Status.kind = "none" THEN Panic("called Option::unwrap on a None value")
    ELSE IF c.Status.kind # "string" THEN Panic("Value should be a string?")
    ELSE c.Status

Str(v) == [kind |-> "string", val |-> v]

LongArray(arr) == [kind |-> "long_array", val |-> arr]

Zero9 == Repeat("0", 9)

\* chunk.rs line 108: the word as a binary string left-padded to 63 characters.
\* Defined for the words whose string has at most 63 characters.
surface_binary(word) ==
    Repeat("0", 63 - Len(format_b_i64(word))) \o format_b_i64(word)

\* chunk.rs lines 113-121 for one word: the groups of 9 characters, last group
\* first, without the groups that read 000000000.
sub_nums(num) == SelectSeq(reverse(chunks(num, 9)), LAMBDA t : t # Zero9)

RECURSIVE all_groups(_, _)
\* The vector all after the first k words of surface.
all_groups(surface, k) ==
    IF k = 0 THEN <<>>
    ELSE all_groups(surface, k - 1) \o sub_nums(surface_binary(ArrWord(surface, k - 1)))

\* chunk.rs lines 124-129
heights_of(all) == [i \in 1..Len(all) |-> from_str_radix2(all[i]) - 64 - 1]

\* A mutant of map_name: the two maps taken for each other.
map_name_swapped(ignore_water) == IF ignore_water THEN "WORLD_SURFACE" ELSE "OCEAN_FLOOR"

\* chunk.rs lines 96-100: the map get_heightmap decodes.
map_name(ignore_water) == IF ignore_water THEN "OCEAN_FLOOR" ELSE "WORLD_SURFACE"

\* Chunk::get_heightmap.  63 - n.len() underflows for a word with its top bit
\* set (64 characters): a panic on the subtraction with overflow checks, and a
\* capacity overflow panic in String::repeat without them.
get_heightmap(c, ignore_water) ==
    LET st == get_status(c)
        map == map_name(ignore_water)
    IN  IF IsPanic(st) THEN st
        ELSE IF st.val # "full" THEN None
        ELSE IF c.Heightmaps.kind = "none" THEN Panic("called Option::unwrap on a None value")
        ELSE IF c.Heightmaps.kind # "compound" THEN Panic("explicit panic")
        ELSE IF c.Heightmaps.val[map].kind = "none"
             THEN Panic("called Option::unwrap on a None value")
        ELSE IF c.Heightmaps.val[map].kind # "long_array" THEN Panic("no ocean?")
        ELSE LET surface == c.Heightmaps.val[map].val
             IN  IF \E k \in 0..(surface.len - 1) : IsNegative(ArrWord(surface, k))
                 THEN Panic("attempt to subtract with overflow")
                 ELSE Some(heights_of(all_groups(surface, surface.len)))

\* y + 64 in i32: beyond i32::MAX it panics with overflow checks (oc) and
\* wraps around without them.
add_64(y, oc) ==
    IF y <= I32Max - 64 THEN [kind |-> "int", val |-> y + 64]
    ELSE IF oc THEN Panic("attempt to add with overflow")
    ELSE [kind |-> "int", val |-> ((y - I32Max - 1) + 64) + (-I32Max - 1)]

\* v as i8
as_i8(v) == ((v + 128) % 256) - 128

\* A mutant of altitude_index: the section index without the offset of 4.
altitude_index_flat(y, oc) ==
    IF IsPanic(add_64(y, oc)) THEN add_64(y, oc)
    ELSE [kind |-> "int", val |-> as_i8(TruncDiv(add_64(y, oc).val, 16))]

\* ((y + 64) / 16 - 4) as i8
altitude_index(y, oc) ==
    IF IsPanic(add_64(y, oc)) THEN add_64(y, oc)
    ELSE [kind |-> "int", val |-> as_i8(TruncDiv(add_64(y, oc).val, 16) - 4)]

\* The first section of the list whose Y byte is y, as an index, 0 for none.
first_section(sections, y) ==
    IF \E i \in 1..Len(sections) : sections[i].Y = y
    THEN CHOOSE i \in 1..Len(sections) :
            sections[i].Y = y /\ \A j \in 1..(i - 1) : sections[j].Y # y
    ELSE 0

\* Chunk::get_section
get_section(c, y) ==
    IF y < -4 \/ y > 19 THEN Panic("Y value out of range")
    ELSE IF first_section(c.sections, y) = 0 THEN None
    ELSE Some(c.sections[first_section(c.sections, y)])

DefaultBiome == "minecraft:ocean"

\* Chunk::get_biome
get_biome(c, y, oc) ==
    LET ai == altitude_index(y, oc)
    IN  IF IsPanic(ai) THEN ai
        ELSE IF first_section(c.sections, ai.val) = 0 THEN Str(DefaultBiome)
        ELSE LET section == c.sections[first_section(c.sections, ai.val)]
             IN  IF section.biomes.kind = "none"
                 THEN Panic("called Option::unwrap on a None value")
                 ELSE IF Len(section.biomes.palette) = 0
                 THEN Panic("index out of bounds: the len is 0 but the index is 0")
                 ELSE Str(section.biomes.palette[1])

OutOfBounds == Panic("index out of bounds")

\* i64 >> sh for an i32 shift amount: a shift amount outside 0..63 panics with
\* overflow checks and is reduced modulo 64 without them.
shr_i64(word, sh, oc) ==
    IF sh >= 0 /\ sh <= 63 THEN [kind |-> "word", val |-> Sar(word, sh)]
    ELSE IF oc THEN Panic("attempt to shift right with overflow")
    ELSE [kind |-> "word", val |-> Sar(word, sh % 64)]

\* chunk.rs line 276
biome_index(x, y, z) ==
    (TruncDiv(TruncRem(y, 16), 4) * 16) + TruncDiv(z, 4) * 4 + TruncDiv(x, 4)

\* chunk.rs lines 257-338 of Chunk::get_block: the biome of the voxel, with y
\* already reduced to 0..15.  An empty palette panics on every path: on
\* pal.len() - 1 with overflow checks, on an index into the empty palette or
\* on todo!() without them.  The entry of a palette without data is rendered
\* by the nbt crate's Display for Value, which is not part of this source; the
\* model keeps the entry itself.
biome_of(section, x, y, z, oc) ==
    IF section.biomes.kind # "compound" THEN Panic("no biome?")
    ELSE IF Len(section.biomes.palette) = 0 THEN OutOfBounds
    ELSE IF section.biomes.data.kind = "none"
         THEN [kind |-> "biome", val |-> section.biomes.palette[1], pal_id |-> 0,
               decoded |-> FALSE]
    ELSE IF section.biomes.data.kind # "long_array" THEN Panic("naw?")
    ELSE IF section.biomes.data.val.len = 0 THEN OutOfBounds
    ELSE LET pal == section.biomes.palette
             dat == ArrWord(section.biomes.data.val, 0)
             index == biome_index(x, y, z)
             bits == bit_length(Len(pal) - 1)
             sh == TruncRem(bits * index, 64)
             shifted_dat == shr_i64(dat, sh, oc)
         IN  IF IsPanic(shifted_dat) THEN shifted_dat
             ELSE IF 64 - sh < bits THEN Panic("not yet implemented")
             ELSE LET pal_id == WordValue(BitAnd(shifted_dat.val, MaskWord(bits)))
                  IN  IF pal_id >= Len(pal) THEN OutOfBounds
                      ELSE [kind |-> "biome", val |-> pal[pal_id + 1], pal_id |-> pal_id,
                            decoded |-> TRUE]

\* A mutant of block_bits: the width of the palette length, not of the last index.
block_bits_len(n) == Max(bit_length(n), 4)

\* cmp::max(self.bit_length(palette.len() - 1), 4), chunk.rs line 357, for a
\* palette of n >= 1 entries.
block_bits(n) == Max(bit_length(n - 1), 4)

\* A mutant of block_state: the position of field index in a bit stream whose
\* fields span the words.
block_state_span(states, bits, index) ==
    IF index < 0 \/ (index * bits) \div 64 >= states.len THEN OutOfBounds
    ELSE [kind |-> "index",
          val |-> WordValue(BitAnd(Shr(ArrWord(states, (index * bits) \div 64),
                                       (index * bits) % 64), MaskWord(bits)))]

\* chunk.rs lines 366-375: the palette index of voxel index.  A negative index
\* becomes a huge usize and misses the array.  data as u64 and data as usize
\* keep the 64 bits of the word (usize has 64 bits), and the shift of an
\* unsigned value fills with zeros.
block_state(states, bits, index) ==
    IF index < 0 \/ index \div (64 \div bits) >= states.len THEN OutOfBounds
    ELSE LET state == index \div (64 \div bits)
             data == ArrWord(states, state)
             modified == IsNegative(data)
             d == data
             shifted_data == Shr(IF modified THEN d ELSE data, (index % (64 \div bits)) * bits)
         IN  [kind |-> "index", val |-> WordValue(BitAnd(shifted_data, MaskWord(bits)))]

\* chunk.rs lines 378-397: the properties of a palette entry.
props_of(block) ==
    IF block.kind # "compound" THEN Panic("block should be a compound")
    ELSE IF block.Properties.kind = "none" THEN None
    ELSE IF block.Properties.kind # "compound" THEN Panic("Properties should be a compound")
    ELSE Some(block.Properties.val)

\* What Chunk::get_block hands back, with the locals it computed on the way
\* (-1 for a local it did not compute).
Returned(res, path, biome, bits, index, palette_id) ==
    [kind |-> res.kind, val |-> res, path |-> path, biome |-> biome,
     bits |-> bits, index |-> index, palette_id |-> palette_id]

NoBiome == [kind |-> "biome", val |-> "", pal_id |-> -1, decoded |-> FALSE]

\* chunk.rs lines 340-406 of Chunk::get_block, with y already reduced to 0..15.
\* chunk.rs passes the biome to Block::from_name and Block::from_palette as a
\* fourth argument that block.rs does not take; the model keeps it beside the
\* block.  An empty palette makes palette.len() - 1 underflow: a panic with
\* overflow checks, and without them a width that is used only with data, where
\* the index into the empty palette panics.
blocks_of(c, section, x, y, z, biome, oc) ==
    LET coords == Some(<<c.x * 32 + x, y, c.z * 32 + z>>)
        air == from_name(AirName, coords, None)
        bs == section.block_states
    IN  IF bs.kind # "compound" THEN Returned(air, "no_block_states", biome, -1, -1, -1)
        ELSE IF Len(bs.palette) = 0
        THEN IF oc THEN Returned(Panic("attempt to subtract with overflow"), "panic", biome, -1, -1, -1)
             ELSE IF bs.data.kind = "none" THEN Returned(air, "no_data", biome, -1, -1, -1)
             ELSE Returned(OutOfBounds, "panic", biome, -1, -1, -1)
        ELSE LET bits == block_bits(Len(bs.palette))
                 index == y * 16 * 16 + z * 16 + x
             IN  IF bs.data.kind = "none" THEN Returned(air, "no_data", biome, bits, index, -1)
                 ELSE IF bs.data.kind # "long_array"
                 THEN Returned(Panic("something here"), "panic", biome, bits, index, -1)
                 ELSE LET id == block_state(bs.data.val, bits, index)
                      IN  IF IsPanic(id) THEN Returned(id, "panic", biome, bits, index, -1)
                          ELSE IF id.val >= Len(bs.palette)
                          THEN Returned(OutOfBounds, "panic", biome, bits, index, id.val)
                          ELSE LET block == bs.palette[id.val + 1]
                                   props == props_of(block)
                               IN  IF IsPanic(props)
                                   THEN Returned(props, "panic", biome, bits, index, id.val)
                                   ELSE Returned(from_palette(block, coords, props), "palette",
                                                 biome, bits, index, id.val)

\* Chunk::get_block
get_block(c, x, y, z, oc) ==
    LET ai == altitude_index(y, oc)
        section == get_section(c, ai.val)
        biome == biome_of(section.val, x, y % 16, z, oc)
    IN  IF IsPanic(ai) THEN Returned(ai, "panic", NoBiome, -1, -1, -1)
        ELSE IF IsPanic(section) THEN Returned(section, "panic", NoBiome, -1, -1, -1)
        ELSE IF section.kind = "none"
        THEN Returned(from_name(AirName, Some(<<c.x * 32 + x, y, c.z * 32 + z>>), None),
                      "no_section", NoBiome, -1, -1, -1)
        ELSE IF IsPanic(biome) THEN Returned(biome, "panic", NoBiome, -1, -1, -1)
        ELSE blocks_of(c, section.val, x, y % 16, z, biome, oc)

-----------------------------------------------------------------------------
(* region.rs *)

(***************************************************************************)
(* A region file of nsectors whole 4096-byte sectors.  Sector 0 is the      *)
(* location table: header maps the slots that are not all zero to their 4   *)
(* bytes.  payloads maps a sector to the chunk payload that starts there:   *)
(* length and compression are the 5 bytes in front of the data, stream is   *)
(* the number of data bytes that form a complete zlib stream of a tag tree  *)
(* (0 when the data is no such stream) and blob is that tag tree.  Every    *)
(* other byte of the file is 0.  A byte position is a sector and an offset  *)
(* in it.                                                                  *)
(***************************************************************************)
SectorSize == 4096

HeaderEntry(r, slot) ==
    IF slot \in DOMAIN r.header THEN r.header[slot] ELSE <<0, 0, 0, 0>>

\* Byte i of a big-endian u32 (i = 0 the most significant).
BeByte(v, i) == (v \div Pow2(8 * (3 - i))) % 256

\* self.data[sector * 4096 + off], for off below the 5 bytes that the loader
\* reads one by one.
RegionByte(r, sector, off) ==
    IF sector = 0 THEN HeaderEntry(r, off \div 4)[(off % 4) + 1]
    ELSE IF sector \in DOMAIN r.payloads
    THEN IF off < 4 THEN BeByte(r.payloads[sector].length, off)
         ELSE IF off = 4 THEN r.payloads[sector].compression
         ELSE 0
    ELSE 0

\* Region::header_offset
header_offset(chunk_x, chunk_z) == 4 * ((chunk_x % 32) + (chunk_z % 32) * 32)

\* from_be_3_bytes
from_be_3_bytes(bytes) == bytes[1] * 65536 + bytes[2] * 256 + bytes[3]

\* Region::chunk_location: the slices panic on a file shorter than the entry.
chunk_location(r, chunk_x, chunk_z) ==
    LET b_off == header_offset(chunk_x, chunk_z)
        temp == [n \in 1..3 |-> RegionByte(r, 0, b_off + n - 1)]
    IN  IF r.nsectors = 0 THEN OutOfBounds
        ELSE [kind |-> "loc", off |-> from_be_3_bytes(temp),
              sectors |-> RegionByte(r, 0, b_off + 3)]

\* Blob::from_zlib_reader over the nbytes bytes that follow the 5-byte prefix
\* of the payload at sector: the nbt crate's reader, which succeeds when the
\* bytes hold a complete zlib stream of a tag tree.
from_zlib_reader(r, sector, nbytes) ==
    IF sector \in DOMAIN r.payloads /\ r.payloads[sector].stream > 0
       /\ nbytes >= r.payloads[sector].stream
    THEN [kind |-> "ok", val |-> r.payloads[sector].blob]
    ELSE [kind |-> "err"]

Loaded(res, reads) == [kind |-> res.kind, val |-> res, reads |-> reads]

\* A mutant of is_absent: the absent chunk is recognised by its offset alone.
is_absent_offset_only(loc) == loc.off = 0

\* off == (0, 0), region.rs line 63
is_absent(loc) == loc.off = 0 /\ loc.sectors = 0

\* Region::chunk_data, with the byte ranges it reads (sector, first, last).
\* off.0 * 4096 is a u32 product: from 2^20 sectors on it panics with overflow
\* checks and wraps around without them.
chunk_data(r, chunk_x, chunk_z, oc) ==
    LET loc == chunk_location(r, chunk_x, chunk_z)
        b_off == header_offset(chunk_x, chunk_z)
        head == {<<0, b_off, b_off + 3>>}
        sector == loc.off % Pow2(20)
        length == RegionByte(r, sector, 0) * Pow2(24) + RegionByte(r, sector, 1) * 65536
                  + RegionByte(r, sector, 2) * 256 + RegionByte(r, sector, 3)
        compression == RegionByte(r, sector, 4)
        prefix == head \cup {<<sector, 0, 4>>}
        data == from_zlib_reader(r, sector, length - 1)
    IN  IF IsPanic(loc) THEN Loaded(loc, {})
        ELSE IF is_absent(loc) THEN Loaded(None, head)
        ELSE IF loc.off >= Pow2(20) /\ oc
        THEN Loaded(Panic("attempt to multiply with overflow"), head)
        ELSE IF sector >= r.nsectors THEN Loaded(OutOfBounds, head)
        ELSE IF compression = 1 THEN Loaded(None, prefix)
        ELSE IF length = 0 \/ 5 + length - 1 > (r.nsectors - sector) * SectorSize
        THEN Loaded(OutOfBounds, prefix)
        ELSE IF data.kind = "err"
        THEN Loaded(Panic("called Result::unwrap on an Err value"),
                    prefix \cup {<<sector, 5, 5 + length - 2>>})
        ELSE Loaded(Some(data.val), prefix \cup {<<sector, 5, 5 + length - 2>>})

\* Chunk::from_region
from_region(r, chunk_x, chunk_z, oc) ==
    LET data == chunk_data(r, chunk_x, chunk_z, oc)
    IN  IF data.kind = "some"
        THEN Loaded(Some([x |-> chunk_x, z |-> chunk_z, Status |-> data.val.val.Status,
                          Heightmaps |-> data.val.val.Heightmaps,
                          sections |-> data.val.val.sections]), data.reads)
        ELSE data

\* Region::get_chunk
get_chunk(r, chunk_x, chunk_z, oc) == from_region(r, chunk_x, chunk_z, oc)

\* (v / 32) as u32, held as the i32 of the same 32 bits: a negative quotient is
\* a u32 of 2^31 or more, with the same remainder by 32.
chunk_coord(v) == TruncDiv(v, 32)

\* Region::get_block, with the arguments it passes on: the chunk coordinates
\* to get_chunk and the local coordinates to Chunk::get_block.
region_get_block(r, x, y, z, oc) ==
    LET c == get_chunk(r, chunk_coord(x), chunk_coord(z), oc)
        block == get_block(c.val.val, TruncRem(x, 32), y, TruncRem(z, 32), oc)
        passed == [chunk_x |-> chunk_coord(x), chunk_z |-> chunk_coord(z),
                   x |-> TruncRem(x, 32), y |-> y, z |-> TruncRem(z, 32)]
    IN  IF c.kind = "some"
        THEN [kind |-> IF block.kind = "panic" THEN "panic" ELSE "some", val |-> block,
              reached |-> TRUE, passed |-> passed, chunk |-> c.val.val]
        ELSE [kind |-> c.kind, val |-> c.val, reached |-> FALSE, passed |-> passed,
              chunk |-> None]

-----------------------------------------------------------------------------
(* The caller: what it holds and the calls it makes *)

NoRegion == [nsectors |-> 0, header |-> <<>>, payloads |-> <<>>]

NoChunk == [x |-> 0, z |-> 0, Status |-> None, Heightmaps |-> None, sections |-> <<>>]

NoCall == [op |-> "none", arg |-> <<>>]

SeqsUpTo(S, n) == UNION {[1..k -> S] : k \in 0..n}

-----------------------------------------------------------------------------
(* Chunks and the calls on them *)

Voxels == 4096

SubCells == 64

DigitChars == <<"0", "1", "2", "3", "4", "5", "6", "7", "8", "9">>

RECURSIVE Decimal(_)
Decimal(i) ==
    IF i < 10 THEN <<DigitChars[i + 1]>> ELSE Decimal(i \div 10) \o <<DigitChars[(i % 10) + 1]>>

\* Palette entry i: minecraft:air first, then the blocks m:b1, m:b2, ...; the
\* odd entries carry a property.
BlockEntry(i) ==
    [kind |-> "compound",
     Name |-> Str(IF i = 0 THEN AirName ELSE <<"m", Colon, "b">> \o Decimal(i)),
     Properties |-> IF i % 2 = 1
                    THEN [kind |-> "compound", val |-> <<<<"axis", "y">>>>]
                    ELSE None]

BlockPalette(n) == [i \in 1..n |-> BlockEntry(i - 1)]

\* The width the format packs a block-state palette of n entries with: the
\* least b >= 4 with 2^b >= n.
FormatWidth(n) == CHOOSE b \in 4..30 : Pow2(b) >= n /\ (b = 4 \/ Pow2(b - 1) < n)

\* The contents of an array by a seed: multiplier, offset and padding bit.
SeedMul(seed) == 1 + 6 * seed

SeedAdd(seed) == 3 * seed

SeedPad(seed) == seed % 2

\* Block states of a palette of n entries: 4096 fields of the format's width,
\* each below m.
BlockStates(n, m, seed) ==
    [kind |-> "compound", palette |-> BlockPalette(n),
     data |-> LongArray(MkArr(FormatWidth(n), FALSE, Voxels, m, SeedMul(seed),
                              SeedAdd(seed), SeedPad(seed),
                              WordsFor(Voxels, FormatWidth(n))))]

UniformBiome(b) == [kind |-> "compound", palette |-> <<b>>, data |-> None]

MkSection(Y, biomes, block_states) ==
    [Y |-> Y, biomes |-> biomes, block_states |-> block_states]

MkChunk(x, z, status, heightmaps, sections) ==
    [x |-> x, z |-> z, Status |-> status, Heightmaps |-> heightmaps, sections |-> sections]

\* The caller drops the result of its last call and is ready for the next.
Return ==
    /\ call # NoCall
    /\ call' = NoCall
    /\ ret' = None
    /\ UNCHANGED <<region, chunk>>

\* chunk.get_block(x, y, z) for coordinates of the given sets
GetBlockAt(X, Y, Z) ==
    /\ call = NoCall
    /\ \E x \in X, y \in Y, z \in Z, oc \in BOOLEAN :
        /\ call' = [op |-> "get_block", arg |-> <<x, y, z>>]
        /\ ret' = get_block(chunk, x, y, z, oc)
        /\ UNCHANGED <<region, chunk>>

\* The section a call at world height y is about, by the format's rule:
\* section index floor((y + 64) / 16) - 4, the first of the list that has it.
SectionAt(c, y) == first_section(c.sections, ((y + 64) \div 16) - 4)

-----------------------------------------------------------------------------
(* Block states: Chunk::get_block on sections with packed block-state data *)

MinWidth == 4

MaxWidth == 5

MaxSeed == 1

Local == 0..15

\* The least and the greatest palette length the format packs with w bits.
LeastPalette(w) == IF w = MinWidth THEN 1 ELSE Pow2(w - 1) + 1

\* One section, Y = 0, with a palette of the least or the greatest length of
\* a width and fields of every value of that width.
BlockChunks ==
    {MkChunk(0, 0, Str("full"), None,
             <<MkSection(0, UniformBiome("minecraft:plains"),
                         BlockStates(n, Pow2(FormatWidth(n)), seed))>>) :
        n \in UNION {{LeastPalette(w), Pow2(w)} : w \in MinWidth..MaxWidth},
        seed \in 0..MaxSeed}

InitBlocks ==
    /\ region = NoRegion
    /\ chunk \in BlockChunks
    /\ call = NoCall
    /\ ret = None

NextBlocks == GetBlockAt(Local, Local, Local) \/ Return

SpecBlocks == InitBlocks /\ [][NextBlocks]_vars

\* The block states of the section a get_block call is about.
CalledStates == chunk.sections[SectionAt(chunk, call.arg[2])].block_states

\* The linear index of the voxel a get_block call is about.
CalledVoxel == (call.arg[2] % 16) * 256 + call.arg[3] * 16 + call.arg[1]

\* floor(log2(k)) + 1 for k > 0, and 0 for k = 0.
BitLength(k) == IF k = 0 THEN 0 ELSE CHOOSE b \in 1..31 : Pow2(b - 1) <= k /\ k < Pow2(b)

\* C1: with the 4096 palette indices packed floor(64 / w) whole fields to a
\* word, lowest field first, get_block decodes for voxel y*256 + z*16 + x the
\* index that was packed, whatever the top bit of the word.
C1_BlockStateRoundTrip ==
    (call.op = "get_block" /\ SectionAt(chunk, call.arg[2]) # 0) =>
        ret.palette_id = StoredValue(CalledStates.data.val, CalledVoxel)

\* C1 happens: a positive index decoded from a word whose top bit is set, in
\* a word with padding bits (width 5) and in one without (width 4).
C1_Witness ==
    /\ call.op = "get_block"
    /\ ret.palette_id > 0
    /\ ret.bits = 5
    /\ CalledVoxel > 2000
    /\ IsNegative(ArrWord(CalledStates.data.val, CalledVoxel \div (64 \div ret.bits)))

\* C5: a palette entry is returned only for an index below the palette's
\* length, and an index at or beyond it comes back as an error value: the call
\* does not panic and returns no block.
C5_IndexInPalette ==
    (call.op = "get_block" /\ SectionAt(chunk, call.arg[2]) # 0) =>
        /\ ret.path = "palette" => ret.palette_id < Len(CalledStates.palette)
        /\ StoredValue(CalledStates.data.val, CalledVoxel) >= Len(CalledStates.palette) =>
                (ret.kind # "panic" /\ ret.kind # "block")

-----------------------------------------------------------------------------
(* Palette lengths: the width Chunk::get_block decodes block states with *)

MaxPalette == 33

Corners == {0, 15}

\* One section, Y = 0, with a palette of every length, with and without data.
WidthChunks ==
    {MkChunk(0, 0, Str("full"), None,
             <<MkSection(0, UniformBiome("minecraft:plains"),
                         IF packed THEN BlockStates(n, n, 1)
                         ELSE [kind |-> "compound", palette |-> BlockPalette(n),
                               data |-> None])>>) :
        n \in 1..MaxPalette, packed \in BOOLEAN}

InitWidth ==
    /\ region = NoRegion
    /\ chunk \in WidthChunks
    /\ call = NoCall
    /\ ret = None

NextWidth == GetBlockAt(Corners, Corners, Corners) \/ Return

SpecWidth == InitWidth /\ [][NextWidth]_vars

\* C2: the width get_block decodes block states with is
\* max(bit_length(n - 1), 4) for a palette of n >= 1 entries.
C2_BlockStateWidth ==
    (call.op = "get_block" /\ SectionAt(chunk, call.arg[2]) # 0) =>
        ret.bits = Max(BitLength(Len(CalledStates.palette) - 1), 4)

\* C2 happens: a palette of 17 entries decoded with 5 bits.
C2_Witness ==
    /\ call.op = "get_block"
    /\ Len(CalledStates.palette) = 17
    /\ ret.path = "palette"
    /\ ret.bits = 5

-----------------------------------------------------------------------------
(* Biomes: Chunk::get_block on sections with packed biome data *)

MaxBiomes == 5

BiomeNames ==
    <<"minecraft:plains", "minecraft:forest", "minecraft:river", "minecraft:beach",
      "minecraft:desert", "minecraft:taiga", "minecraft:swamp", "minecraft:savanna">>

\* The width a biome palette of n entries is packed with: the least b with
\* 2^b >= n.
BiomeWidth(n) == CHOOSE b \in 0..30 : Pow2(b) >= n /\ (b = 0 \/ Pow2(b - 1) < n)

\* Biomes of a palette of n entries: 64 fields, each below n, laid end to end
\* (span) or in whole fields to a word.
Biomes(n, span, seed) ==
    [kind |-> "compound", palette |-> SubSeq(BiomeNames, 1, n),
     data |-> LongArray(MkArr(BiomeWidth(n), span, SubCells, n, SeedMul(seed), SeedAdd(seed),
                              SeedPad(seed),
                              IF BiomeWidth(n) = 0 THEN 1
                              ELSE IF span THEN BiomeWidth(n)
                              ELSE WordsFor(SubCells, BiomeWidth(n))))]

AirOnly == [kind |-> "compound", palette |-> BlockPalette(1), data |-> None]

\* One section, Y = 0, of air with a palette of up to MaxBiomes biomes.
BiomeChunks ==
    {MkChunk(0, 0, Str("full"), None, <<MkSection(0, Biomes(n, span, seed), AirOnly)>>) :
        n \in 1..MaxBiomes, span \in BOOLEAN, seed \in 0..MaxSeed}

InitBiome ==
    /\ region = NoRegion
    /\ chunk \in BiomeChunks
    /\ call = NoCall
    /\ ret = None

\* One x and one z in each 4-block cell of a section.
Cells == {0, 5, 10, 15}

NextBiome == GetBlockAt(Cells, Local, Cells) \/ Return

SpecBiome == InitBiome /\ [][NextBiome]_vars

\* The biomes of the section a get_block call is about.
CalledBiomes == chunk.sections[SectionAt(chunk, call.arg[2])].biomes

\* The sub-cell a get_block call is about.
CalledSubCell ==
    ((call.arg[2] % 16) \div 4) * 16 + (call.arg[3] \div 4) * 4 + (call.arg[1] \div 4)

\* Bit p of a long-array read as one bit stream, lowest bit of word 0 first.
StreamBit(arr, p) == ArrBit(arr, p \div 64, p % 64)

RECURSIVE StreamField(_, _, _)
\* The w-bit field of the stream that starts at bit p.
StreamField(arr, p, w) ==
    IF w = 0 THEN 0
    ELSE StreamField(arr, p, w - 1) + StreamBit(arr, p + w - 1) * Pow2(w - 1)

\* C3: the biome palette index get_block computes for sub-cell s of a palette
\* of n entries is the field of w = bit_length(n - 1) bits that starts at bit
\* w * s of the bit stream, also where that field runs over into the next word.
C3_BiomeField ==
    (call.op = "get_block" /\ SectionAt(chunk, call.arg[2]) # 0
        /\ CalledBiomes.data.kind = "long_array") =>
        /\ ret.kind # "panic"
        /\ ret.biome.pal_id =
            StreamField(CalledBiomes.data.val,
                        BitLength(Len(CalledBiomes.palette) - 1) * CalledSubCell,
                        BitLength(Len(CalledBiomes.palette) - 1))

-----------------------------------------------------------------------------
(* Sections: Chunk::get_block and Chunk::get_biome over the height of a chunk *)

MinSection == -4

MaxSection == 19

WorldYs == (16 * MinSection)..(16 * MaxSection + 15)

\* The lowest, a middle and the highest y of every section of the world.
SectionYs == {16 * s + d : s \in MinSection..MaxSection, d \in {0, 5, 15}}

MaxKind == 5

\* The kinds of section: 1 no block states, one biome; 2 air without a data
\* array, one biome; 3 packed block states and packed biomes of 2 entries;
\* 4 no block states, packed biomes of 5 entries; 5 air without a data array,
\* packed biomes of 2 entries.
SectionOfKind(Y, k) ==
    IF k = 1 THEN MkSection(Y, UniformBiome("minecraft:plains"), None)
    ELSE IF k = 2 THEN MkSection(Y, UniformBiome("minecraft:forest"), AirOnly)
    ELSE IF k = 3 THEN MkSection(Y, Biomes(2, FALSE, 1), BlockStates(2, 2, 1))
    ELSE IF k = 4 THEN MkSection(Y, Biomes(5, FALSE, 1), None)
    ELSE MkSection(Y, Biomes(2, FALSE, 1), AirOnly)

\* Two sections, the lowest or the one at Y = 0 first and the one at Y = 0 or
\* the highest second, of every kind.
SectionChunks ==
    {MkChunk(cx, 0, Str("full"), None, <<SectionOfKind(Ya, ka), SectionOfKind(Yb, kb)>>) :
        cx \in {1}, Ya \in {MinSection, 0}, Yb \in {0, MaxSection},
        ka \in 1..MaxKind, kb \in 1..MaxKind}

InitSections ==
    /\ region = NoRegion
    /\ chunk \in SectionChunks
    /\ call = NoCall
    /\ ret = None

\* chunk.get_biome(y) for a y of the given set
GetBiomeAt(Y) ==
    /\ call = NoCall
    /\ \E y \in Y, oc \in BOOLEAN :
        /\ call' = [op |-> "get_biome", arg |-> <<y>>]
        /\ ret' = get_biome(chunk, y, oc)
        /\ UNCHANGED <<region, chunk>>

NextSections == GetBlockAt({5}, SectionYs, {5, 15}) \/ GetBiomeAt(SectionYs) \/ Return

SpecSections == InitSections /\ [][NextSections]_vars

\* The world height a get_block or get_biome call is about.
CalledY == IF call.op = "get_biome" THEN call.arg[1] ELSE call.arg[2]

CalledSection == chunk.sections[SectionAt(chunk, CalledY)]

\* C7: get_block at a height in -64..319 whose section is not stored returns
\* minecraft:air with the coordinates of the call and no properties, and so
\* does it, with y local to the section, when the section has no block states
\* or no block-state data.
C7_AirWhenNoData ==
    (call.op = "get_block" /\ CalledY \in WorldYs
        /\ (\/ SectionAt(chunk, CalledY) = 0
            \/ CalledSection.block_states.kind = "none"
            \/ CalledSection.block_states.data.kind = "none")) =>
        /\ ret.kind = "block"
        /\ ret.val.namespace = Minecraft
        /\ ret.val.id = Air
        /\ ret.val.properties = None
        /\ ret.val.coords =
            Some(<<chunk.x * 32 + call.arg[1],
                   IF SectionAt(chunk, CalledY) = 0 THEN CalledY ELSE CalledY % 16,
                   chunk.z * 32 + call.arg[3]>>)

-----------------------------------------------------------------------------
(* Heightmaps: Chunk::get_heightmap *)

MaxHeightWords == 2

HeightBits == 9

HeightsPerWord == 7

\* A surface map of cols columns in len words, 7 fields of 9 bits to a word.
HeightArr(len, cols, seed, pad) ==
    LongArray(MkArr(HeightBits, FALSE, cols, Pow2(HeightBits), SeedMul(seed), SeedAdd(seed),
                    pad, len))

HeightChunks ==
    {MkChunk(0, 0, Str(status),
             [kind |-> "compound",
              val |-> [WORLD_SURFACE |-> HeightArr(len, cols, seed, pad),
                       OCEAN_FLOOR |-> HeightArr(len, cols, seed + 1, pad)]],
             <<>>) :
        status \in {"full", "features"}, len \in 1..MaxHeightWords,
        cols \in 0..(HeightsPerWord * MaxHeightWords), seed \in 0..MaxSeed, pad \in {0, 1}}

\* Chunks without a Heightmaps entry, fully generated and not.
BareChunks ==
    {MkChunk(0, 0, Str(status), None, <<>>) : status \in {"full", "features", "empty"}}

InitHeight ==
    /\ region = NoRegion
    /\ chunk \in {c \in HeightChunks :
                    c.Heightmaps.val.WORLD_SURFACE.val.n
                        <= HeightsPerWord * c.Heightmaps.val.WORLD_SURFACE.val.len}
                \cup BareChunks
    /\ call = NoCall
    /\ ret = None

\* chunk.get_heightmap(ignore_water)
GetHeightmap ==
    /\ call = NoCall
    /\ \E ignore_water \in BOOLEAN :
        /\ call' = [op |-> "get_heightmap", arg |-> <<ignore_water>>]
        /\ ret' = get_heightmap(chunk, ignore_water)
        /\ UNCHANGED <<region, chunk>>

NextHeight == GetHeightmap \/ Return

SpecHeight == InitHeight /\ [][NextHeight]_vars

\* The map a get_heightmap call is about.
CalledMap ==
    IF call.arg[1] THEN chunk.Heightmaps.val.OCEAN_FLOOR.val
    ELSE chunk.Heightmaps.val.WORLD_SURFACE.val

\* The number of fields of a map up to its last field that is not zero.
UsedFields(arr) ==
    IF \A k \in 1..(HeightsPerWord * arr.len) : StoredValue(arr, k - 1) = 0 THEN 0
    ELSE CHOOSE k \in 1..(HeightsPerWord * arr.len) :
            /\ StoredValue(arr, k - 1) # 0
            /\ \A j \in (k + 1)..(HeightsPerWord * arr.len) : StoredValue(arr, j - 1) = 0

\* C4: get_heightmap of a fully generated chunk returns the fields of the map
\* in field order, each less 65, leaving out only the zero fields at the end of
\* the stream.
C4_HeightmapFields ==
    (call.op = "get_heightmap" /\ chunk.Status.val = "full"
        /\ chunk.Heightmaps.kind = "compound" /\ CalledMap.pad = 0) =>
        ret = Some([k \in 1..UsedFields(CalledMap) |-> StoredValue(CalledMap, k - 1) - 65])

\* The fields of a map that are not zero, in field order.
NonZeroFields(arr) ==
    SelectSeq([k \in 1..(HeightsPerWord * arr.len) |-> StoredValue(arr, k - 1)],
              LAMBDA v : v # 0)

\* C11: get_heightmap of a chunk whose Status is not "full" returns None for
\* both values of ignore_water, with or without a Heightmaps entry; of a chunk
\* whose Status is "full", with maps of 7 fields in the low 63 bits of a word,
\* it returns Some of the heights decoded from OCEAN_FLOOR when ignore_water
\* is true and from WORLD_SURFACE when it is false.
C11_HeightmapByStatus ==
    call.op = "get_heightmap" =>
        /\ chunk.Status.val # "full" => ret = None
        /\ (chunk.Status.val = "full" /\ chunk.Heightmaps.kind = "compound"
                /\ CalledMap.pad = 0) =>
                ret = Some([i \in 1..Len(NonZeroFields(CalledMap)) |->
                                NonZeroFields(CalledMap)[i] - 65])

\* C11 happens: a fully generated chunk gives the 14 heights of its OCEAN_FLOOR,
\* which are not those of its WORLD_SURFACE.
C11_Witness ==
    /\ call.op = "get_heightmap"
    /\ chunk.Status.val = "full"
    /\ call.arg = <<TRUE>>
    /\ ret.kind = "some"
    /\ Len(ret.val) = 14
    /\ NonZeroFields(chunk.Heightmaps.val.OCEAN_FLOOR.val)
            # NonZeroFields(chunk.Heightmaps.val.WORLD_SURFACE.val)


-----------------------------------------------------------------------------
(* Block names: Block::from_name, Block::from_palette, Block::name *)

MaxNameLen == 4

Alphabet == {"a", "b", Colon}

Names == SeqsUpTo(Alphabet, MaxNameLen)

NameTag(n) == [kind |-> "compound", Name |-> Str(n), Properties |-> None]

Tags ==
    {NameTag(n) : n \in Names}
        \cup {[kind |-> "compound", Name |-> None, Properties |-> None],
              [kind |-> "compound", Name |-> [kind |-> "int", val |-> 0], Properties |-> None],
              [kind |-> "string", val |-> <<"a", Colon, "b">>]}

InitName ==
    /\ region = NoRegion
    /\ chunk = NoChunk
    /\ call = NoCall
    /\ ret = None

FromName ==
    /\ call = NoCall
    /\ \E n \in Names :
        /\ call' = [op |-> "from_name", arg |-> n]
        /\ ret' = from_name(n, None, None)
        /\ UNCHANGED <<region, chunk>>

FromPalette ==
    /\ call = NoCall
    /\ \E tag \in Tags :
        /\ call' = [op |-> "from_palette", arg |-> tag]
        /\ ret' = from_palette(tag, None, None)
        /\ UNCHANGED <<region, chunk>>

\* block.name() on the block the last call returned
BlockName ==
    /\ call.op \in {"from_name", "from_palette"}
    /\ ret.kind = "block"
    /\ call' = [op |-> "name", arg |-> [via |-> call.op, of |-> call.arg]]
    /\ ret' = Str(name(ret))
    /\ UNCHANGED <<region, chunk>>

NextName == FromName \/ FromPalette \/ BlockName \/ Return

SpecName == InitName /\ [][NextName]_vars

\* The name a call of from_name or from_palette was given, <<>> when the
\* palette entry holds no name.
GivenName(op, arg) ==
    IF op = "from_name" THEN arg
    ELSE IF arg.kind = "compound" /\ arg.Name.kind = "string" THEN arg.Name.val
    ELSE <<>>

HasName(op, arg) ==
    op = "from_name" \/ (op = "from_palette" /\ arg.kind = "compound" /\ arg.Name.kind = "string")

\* C8: a name with at least one colon is split by from_name at its first colon
\* only, into the namespace before it and the id after it, and name() of the
\* block gives the name back; so does name() of from_name(namespace : id).
C8_NameRoundTrip ==
    /\ (call.op = "from_name" /\ HasColon(call.arg)) =>
            /\ ret.kind = "block"
            /\ ret.namespace = SubSeq(call.arg, 1, FirstColon(call.arg) - 1)
            /\ ret.id = SubSeq(call.arg, FirstColon(call.arg) + 1, Len(call.arg))
    /\ (call.op = "name" /\ call.arg.via = "from_name" /\ HasColon(call.arg.of)) =>
            ret.val = call.arg.of

\* C9: a name without a colon given to from_name, directly or through
\* from_palette, comes back as an error value: the call does not panic and
\* returns no block.
C9_NoColonIsError ==
    (HasName(call.op, call.arg) /\ ~HasColon(GivenName(call.op, call.arg))) =>
        (ret.kind # "panic" /\ ret.kind # "block")

-----------------------------------------------------------------------------
(* Regions: Region::get_chunk on the header and the payloads of a file *)

MaxRegionSectors == 4

MaxCompression == 3

\* Header entries: the absent chunk, offset 0 with a count, sector 2 with and
\* without a count, sector 3, and an offset of 2^20 sectors.
Entries ==
    {<<0, 0, 0, 0>>, <<0, 0, 0, 1>>, <<0, 0, 2, 1>>, <<0, 0, 2, 0>>, <<0, 0, 3, 1>>,
     <<16, 0, 0, 2>>}

\* The tag tree of a stored chunk.
StoredBlob ==
    [Status |-> Str("full"), Heightmaps |-> None,
     sections |-> <<MkSection(0, UniformBiome("minecraft:plains"), AirOnly)>>]

\* Payloads: a length field of 0, of 20 or of more than two sectors, every
\* compression type, and bytes that hold a complete stream of 19 bytes or none.
Payloads ==
    {[length |-> l, compression |-> c, stream |-> st, blob |-> StoredBlob] :
        l \in {0, 20, 9000}, c \in 1..MaxCompression, st \in {0, 19}}

\* A file of n sectors: the entries of slots 0 and 1, slot 32 at sector 3, a
\* payload at sector 2 and a good payload at sector 3 where the file has them.
MkRegion(n, e0, e1, p) ==
    [nsectors |-> n,
     header |-> (0 :> e0) @@ (1 :> e1) @@ (32 :> <<0, 0, 3, 1>>),
     payloads |-> IF n <= 2 THEN <<>>
                  ELSE IF n = 3 THEN (2 :> p)
                  ELSE (2 :> p) @@
                       (3 :> [length |-> 20, compression |-> 2, stream |-> 19,
                              blob |-> StoredBlob])]

Regions ==
    {NoRegion}
        \cup {MkRegion(2, e0, e1, CHOOSE p \in Payloads : TRUE) : e0 \in Entries, e1 \in Entries}
        \cup {MkRegion(n, e0, e1, p) :
                n \in 3..MaxRegionSectors, e0 \in Entries, e1 \in Entries, p \in Payloads}

InitRegion ==
    /\ region \in Regions
    /\ chunk = NoChunk
    /\ call = NoCall
    /\ ret = None

\* region.get_chunk(chunk_x, chunk_z): the caller keeps the chunk it gets.
GetChunk ==
    /\ call = NoCall
    /\ \E chunk_x \in {0, 1, 32}, chunk_z \in {0, 1}, oc \in BOOLEAN :
        /\ call' = [op |-> "get_chunk", arg |-> <<chunk_x, chunk_z>>]
        /\ ret' = get_chunk(region, chunk_x, chunk_z, oc)
        /\ chunk' = IF ret'.kind = "some" THEN ret'.val.val ELSE chunk
        /\ UNCHANGED region

NextRegion == GetChunk \/ Return

SpecRegion == InitRegion /\ [][NextRegion]_vars

\* The header slot a get_chunk call is about, and its entry.
CalledSlot == (call.arg[1] % 32) + 32 * (call.arg[2] % 32)

CalledEntry == region.header[CalledSlot]

\* The entry of the call is the one of an absent chunk: offset 0, count 0.
CalledAbsent ==
    /\ call.op = "get_chunk"
    /\ region.nsectors > 0
    /\ CalledSlot \in DOMAIN region.header => CalledEntry = <<0, 0, 0, 0>>

\* The sector of the payload of the call, by the offset of its entry.
CalledSector == (CalledEntry[1] * 65536 + CalledEntry[2] * 256 + CalledEntry[3]) % Pow2(20)

\* The compression type of the payload of the call is 1.
CalledRaw ==
    /\ call.op = "get_chunk"
    /\ CalledSlot \in DOMAIN region.header
    /\ CalledSector < region.nsectors
    /\ RegionByte(region, CalledSector, 4) = 1

\* The bytes of the header entry of the call, as a range read.
CalledEntryRead == <<0, 4 * CalledSlot, 4 * CalledSlot + 3>>

\* C6, as the code has it: get_chunk on a header entry of offset 0 and count 0
\* returns None, reads the entry and nothing else, and does not fail; it
\* returns None only for such an entry or for a payload of compression type 1.
C6_AbsentOrRaw ==
    /\ CalledAbsent => (ret.kind = "none" /\ ret.reads = {CalledEntryRead})
    /\ (call.op = "get_chunk" /\ ret.kind = "none") => (CalledAbsent \/ CalledRaw)

\* C6 happens: get_chunk(1, 1) on a file whose entry for it is offset 0, count
\* 0 returns None after reading bytes 132..135.
C6_Witness ==
    /\ CalledAbsent
    /\ call.arg = <<1, 1>>
    /\ ret.kind = "none"
    /\ ret.reads = {<<0, 132, 135>>}

\* C6, as stated: get_chunk on a header entry of offset 0 and count 0 returns
\* None without reading the payload, and it returns None only for such an
\* entry.
C6_NoneOnlyWhenAbsent ==
    /\ CalledAbsent => (ret.kind = "none" /\ ret.reads = {CalledEntryRead})
    /\ (call.op = "get_chunk" /\ ret.kind = "none") => CalledAbsent

\* The entry of the call is that of a chunk with a payload in the file, of the
\* length its length field says.
CalledPresent ==
    /\ call.op = "get_chunk"
    /\ CalledSlot \in DOMAIN region.header
    /\ CalledEntry # <<0, 0, 0, 0>>
    /\ CalledSector \in DOMAIN region.payloads
    /\ region.payloads[CalledSector].length >= 1
    /\ 4 + region.payloads[CalledSector].length
            <= (region.nsectors - CalledSector) * SectorSize

\* The bytes of the payload of the call after its 5-byte prefix were read.
CalledStreamRead == \E rd \in ret.reads : rd[1] = CalledSector /\ rd[3] >= 5

\* C12: get_chunk on a chunk with a payload gives the bytes after the prefix
\* to the zlib reader only when the compression type is 2; for every other
\* compression type it reads no byte after the prefix and returns None.
C12_OnlyZlibDecoded ==
    (CalledPresent /\ region.payloads[CalledSector].compression # 2) =>
        (ret.kind = "none" /\ ~CalledStreamRead)

\* The offset in sectors of the entry of the call: its first 3 bytes, the most
\* significant first.
CalledOffset == CalledEntry[1] * 65536 + CalledEntry[2] * 256 + CalledEntry[3]

\* C13: get_chunk(chunk_x, chunk_z) reads the 4 bytes of the header at
\* 4 * ((chunk_x mod 32) + (chunk_z mod 32) * 32), and every other byte it
\* reads is of the sector that the first 3 of them give, the most significant
\* first: the payload is read at 4096 times that offset, from its first byte
\* when the file has the sector.
C13_SectorLookup ==
    (call.op = "get_chunk" /\ region.nsectors > 0 /\ CalledSlot \in DOMAIN region.header) =>
        /\ CalledEntryRead \in ret.reads
        /\ \A rd \in ret.reads \ {CalledEntryRead} : rd[1] = CalledOffset
        /\ (CalledEntry # <<0, 0, 0, 0>> /\ CalledOffset \in DOMAIN region.payloads) =>
                <<CalledOffset, 0, 4>> \in ret.reads

-----------------------------------------------------------------------------
(* Heights: Chunk::get_block at and beyond the ends of the world *)

\* Heights at the two ends of the world, the 16 below and above them, one and
\* sixteen times 256 sections away, and at the two ends of i32.
AltitudeYs ==
    {-I32Max - 1, -4160, -81, -80, -79, -65, -64, 319, 320, 335, 336, 4032, 4047,
     I32Max - 64, I32Max - 63, I32Max}

InitAltitude ==
    /\ region = NoRegion
    /\ chunk \in SectionChunks
    /\ call = NoCall
    /\ ret = None

NextAltitude == GetBlockAt({5}, AltitudeYs, {5}) \/ Return

SpecAltitude == InitAltitude /\ [][NextAltitude]_vars

\* C14: get_block at a height outside -64..319 is rejected: it ends in the
\* range check of get_section (or in the overflow of y + 64) and is resolved
\* against no section of the chunk.
C14_OutsideIsRejected ==
    (call.op = "get_block" /\ CalledY \notin WorldYs) =>
        /\ ret.kind = "panic"
        /\ ret.val.msg \in {"Y value out of range", "attempt to add with overflow"}

-----------------------------------------------------------------------------
(* World coordinates: Region::get_block *)

\* The tag tree of a chunk with one section, Y = 0, of 16 blocks.
WorldBlob(seed) ==
    [Status |-> Str("full"), Heightmaps |-> None,
     sections |-> <<MkSection(0, UniformBiome("minecraft:plains"), BlockStates(16, 16, seed))>>]

\* A file of 3 sectors whose chunks of the given header slots are all stored
\* at sector 2.
WorldRegion(slots, seed) ==
    [nsectors |-> 3,
     header |-> [slot \in slots |-> <<0, 0, 2, 1>>],
     payloads |-> (2 :> [length |-> 20, compression |-> 2, stream |-> 19,
                         blob |-> WorldBlob(seed)])]

WorldRegions ==
    {WorldRegion(slots, seed) :
        slots \in {{0}, {0, 1, 32}, {0, 1, 31, 32, 992, 1023}}, seed \in 0..MaxSeed}

\* World x and z: in the first 16 blocks, in the next 16, in the next chunks
\* of the region, beyond the region and below zero.
WorldXZ == {-33, -32, -1, 0, 5, 15, 16, 31, 32, 47, 1029}

InitWorld ==
    /\ region \in WorldRegions
    /\ chunk = NoChunk
    /\ call = NoCall
    /\ ret = None

\* region.get_block(x, y, z): the caller sees the block, the model keeps the
\* chunk that was loaded for it.
RegionGetBlock ==
    /\ call = NoCall
    /\ \E x \in WorldXZ, y \in {0, 15, 37}, z \in WorldXZ, oc \in BOOLEAN :
        /\ call' = [op |-> "region_get_block", arg |-> <<x, y, z>>]
        /\ ret' = region_get_block(region, x, y, z, oc)
        /\ chunk' = IF ret'.reached THEN ret'.chunk ELSE chunk
        /\ UNCHANGED region

NextWorld == RegionGetBlock \/ Return

SpecWorld == InitWorld /\ [][NextWorld]_vars

\* C15: a Region::get_block that reaches a stored chunk passes chunk
\* coordinates in 0..31 to get_chunk and local x and z in 0..15 to
\* Chunk::get_block, and the voxel index decoded, y * 256 + z * 16 + x with the
\* local y, is in 0..4095.
C15_LocalCoordinates ==
    (call.op = "region_get_block" /\ ret.reached) =>
        /\ ret.passed.chunk_x \in 0..31
        /\ ret.passed.chunk_z \in 0..31
        /\ ret.passed.x \in 0..15
        /\ ret.passed.z \in 0..15
        /\ ret.val.index \in 0..(Voxels - 1)

====
